---------------------------- MODULE Spec2Model ----------------------------
(***************************************************************************)
(* A model of ARC's main orchestrator (arc/main.py) and of the job-status  *)
(* parser exercised by arc/job/sshTest.py.                                 *)
(*                                                                         *)
(* Python strings are modelled as sequences of one-character strings, so   *)
(* that lower(), count(), split(), replace() and the `in` tests are        *)
(* computed the way Python computes them.                                  *)
(***************************************************************************)
EXTENDS Naturals, Sequences, FiniteSets

\* ------------------------------------------------------------------ bounds
\* Longest generated level_of_theory string over Alphabet.
MaxLen == 3
\* Most keyword arguments of ARC(...) that differ from their defaults.
MaxSupplied == 2
\* Longest species / reaction list passed to ARC(...).
MaxList == 1
\* Most job rows in a queue snapshot.
MaxRows == 2

\* ------------------------------------------------------- Python str model
EMPTY == << >>

UpperCase ==
    <<"A","B","C","D","E","F","G","H","I","J","K","L","M",
      "N","O","P","Q","R","S","T","U","V","W","X","Y","Z">>
LowerCase ==
    <<"a","b","c","d","e","f","g","h","i","j","k","l","m",
      "n","o","p","q","r","s","t","u","v","w","x","y","z">>

\* str.lower() on one character.
LowerChar(c) ==
    IF \E i \in DOMAIN UpperCase : UpperCase[i] = c
    THEN LowerCase[CHOOSE i \in DOMAIN UpperCase : UpperCase[i] = c]
    ELSE c

\* str.lower()
Lower(s) == [i \in 1..Len(s) |-> LowerChar(s[i])]

StartsWith(s, p) == Len(s) >= Len(p) /\ SubSeq(s, 1, Len(p)) = p

\* `sub in s`
Contains(s, sub) ==
    \E i \in 1..(Len(s) + 1) : i + Len(sub) - 1 <= Len(s) /\ SubSeq(s, i, i + Len(sub) - 1) = sub

\* s.count(sub): non-overlapping occurrences, scanned left to right.
RECURSIVE Count(_, _)
Count(s, sub) ==
    IF Len(s) < Len(sub) THEN 0
    ELSE IF StartsWith(s, sub)
         THEN 1 + Count(SubSeq(s, Len(sub) + 1, Len(s)), sub)
         ELSE Count(Tail(s), sub)

\* s.split(sep): the list of the pieces between the occurrences of sep.
RECURSIVE SplitFrom(_, _, _)
SplitFrom(s, sep, cur) ==
    IF Len(s) = 0 THEN <<cur>>
    ELSE IF StartsWith(s, sep)
         THEN <<cur>> \o SplitFrom(SubSeq(s, Len(sep) + 1, Len(s)), sep, EMPTY)
         ELSE SplitFrom(Tail(s), sep, Append(cur, Head(s)))

Split(s, sep) == SplitFrom(s, sep, EMPTY)

\* s.replace(old, new)
RECURSIVE Replace(_, _, _)
Replace(s, old, new) ==
    IF Len(s) = 0 THEN EMPTY
    ELSE IF StartsWith(s, old)
         THEN new \o Replace(SubSeq(s, Len(old) + 1, Len(s)), old, new)
         ELSE <<Head(s)>> \o Replace(Tail(s), old, new)

SLASH == <<"/">>
SEP == <<"/","/">>

\* An attribute that was never assigned on the object (reading it raises
\* AttributeError).  Not a string any input can produce.
Unset == <<"<unset>">>

\* --------------------------------------------- check_model_chemistry tables
\* The model chemistries Arkane has bond additivity corrections for.
BacModelChemistries ==
    { <<"c","b","s","-","q","b","3">>,  \* cbs-qb3
      <<"c","b","s","-","q","b","3","-","p","a","r","a","s","k","e","v","a","s">>,  \* cbs-qb3-paraskevas
      <<"c","c","s","d","(","t",")","-","f","1","2","/","c","c","-","p","v","d","z","-","f","1","2">>,  \* ccsd(t)-f12/cc-pvdz-f12
      <<"c","c","s","d","(","t",")","-","f","1","2","/","c","c","-","p","v","t","z","-","f","1","2">>,  \* ccsd(t)-f12/cc-pvtz-f12
      <<"c","c","s","d","(","t",")","-","f","1","2","/","c","c","-","p","v","q","z","-","f","1","2">>,  \* ccsd(t)-f12/cc-pvqz-f12
      <<"b","3","l","y","p","/","c","b","s","b","7">>,  \* b3lyp/cbsb7
      <<"b","3","l","y","p","/","6","-","3","1","1","g","(","2","d",",","d",",","p",")">>,  \* b3lyp/6-311g(2d,d,p)
      <<"b","3","l","y","p","/","6","-","3","1","1","+","g","(","3","d","f",",","2","p",")">>,  \* b3lyp/6-311+g(3df,2p)
      <<"b","3","l","y","p","/","6","-","3","1","g","*","*">>  \* b3lyp/6-31g**
    }

\* The sp levels whose model chemistry is the level with "-f12" appended.
F12SpLevels ==
    { <<"c","c","s","d","(","t",")","-","f","1","2","/","c","c","-","p","v","d","z">>,  \* ccsd(t)-f12/cc-pvdz
      <<"c","c","s","d","(","t",")","-","f","1","2","/","c","c","-","p","v","t","z">>,  \* ccsd(t)-f12/cc-pvtz
      <<"c","c","s","d","(","t",")","-","f","1","2","/","c","c","-","p","v","q","z">>  \* ccsd(t)-f12/cc-pvqz
    }

\* The sp levels accepted as model chemistry when use_bac is False.
AecModelChemistries ==
    { <<"m","0","6","-","2","x","/","c","c","-","p","v","t","z">>,  \* m06-2x/cc-pvtz
      <<"g","3">>,  \* g3
      <<"m","0","8","s","o","/","m","g","3","s","*">>,  \* m08so/mg3s*
      <<"k","l","i","p","_","1">>,  \* klip_1
      <<"k","l","i","p","_","2">>,  \* klip_2
      <<"k","l","i","p","_","3">>,  \* klip_3
      <<"k","l","i","p","_","2","_","c","c">>,  \* klip_2_cc
      <<"c","c","s","d","(","t",")","-","f","1","2","/","c","c","-","p","v","d","z","-","f","1","2","_","h","-","t","z">>,  \* ccsd(t)-f12/cc-pvdz-f12_h-tz
      <<"c","c","s","d","(","t",")","-","f","1","2","/","c","c","-","p","v","d","z","-","f","1","2","_","h","-","q","z">>,  \* ccsd(t)-f12/cc-pvdz-f12_h-qz
      <<"c","c","s","d","(","t",")","-","f","1","2","/","c","c","-","p","v","d","z","-","f","1","2">>,  \* ccsd(t)-f12/cc-pvdz-f12
      <<"c","c","s","d","(","t",")","-","f","1","2","/","c","c","-","p","v","t","z","-","f","1","2">>,  \* ccsd(t)-f12/cc-pvtz-f12
      <<"c","c","s","d","(","t",")","-","f","1","2","/","c","c","-","p","v","q","z","-","f","1","2">>,  \* ccsd(t)-f12/cc-pvqz-f12
      <<"c","c","s","d","(","t",")","-","f","1","2","/","c","c","-","p","c","v","d","z","-","f","1","2">>,  \* ccsd(t)-f12/cc-pcvdz-f12
      <<"c","c","s","d","(","t",")","-","f","1","2","/","c","c","-","p","c","v","t","z","-","f","1","2">>,  \* ccsd(t)-f12/cc-pcvtz-f12
      <<"c","c","s","d","(","t",")","-","f","1","2","/","c","c","-","p","c","v","q","z","-","f","1","2">>,  \* ccsd(t)-f12/cc-pcvqz-f12
      <<"c","c","s","d","(","t",")","-","f","1","2","/","c","c","-","p","v","t","z","-","f","1","2","(","-","p","p",")">>,  \* ccsd(t)-f12/cc-pvtz-f12(-pp)
      <<"c","c","s","d","(","t",")","/","a","u","g","-","c","c","-","p","v","t","z","(","-","p","p",")">>,  \* ccsd(t)/aug-cc-pvtz(-pp)
      <<"c","c","s","d","(","t",")","-","f","1","2","/","a","u","g","-","c","c","-","p","v","d","z">>,  \* ccsd(t)-f12/aug-cc-pvdz
      <<"c","c","s","d","(","t",")","-","f","1","2","/","a","u","g","-","c","c","-","p","v","t","z">>,  \* ccsd(t)-f12/aug-cc-pvtz
      <<"c","c","s","d","(","t",")","-","f","1","2","/","a","u","g","-","c","c","-","p","v","q","z">>,  \* ccsd(t)-f12/aug-cc-pvqz
      <<"b","-","c","c","s","d","(","t",")","-","f","1","2","/","c","c","-","p","v","d","z","-","f","1","2">>,  \* b-ccsd(t)-f12/cc-pvdz-f12
      <<"b","-","c","c","s","d","(","t",")","-","f","1","2","/","c","c","-","p","v","t","z","-","f","1","2">>,  \* b-ccsd(t)-f12/cc-pvtz-f12
      <<"b","-","c","c","s","d","(","t",")","-","f","1","2","/","c","c","-","p","v","q","z","-","f","1","2">>,  \* b-ccsd(t)-f12/cc-pvqz-f12
      <<"b","-","c","c","s","d","(","t",")","-","f","1","2","/","c","c","-","p","c","v","d","z","-","f","1","2">>,  \* b-ccsd(t)-f12/cc-pcvdz-f12
      <<"b","-","c","c","s","d","(","t",")","-","f","1","2","/","c","c","-","p","c","v","t","z","-","f","1","2">>,  \* b-ccsd(t)-f12/cc-pcvtz-f12
      <<"b","-","c","c","s","d","(","t",")","-","f","1","2","/","c","c","-","p","c","v","q","z","-","f","1","2">>,  \* b-ccsd(t)-f12/cc-pcvqz-f12
      <<"b","-","c","c","s","d","(","t",")","-","f","1","2","/","a","u","g","-","c","c","-","p","v","d","z">>,  \* b-ccsd(t)-f12/aug-cc-pvdz
      <<"b","-","c","c","s","d","(","t",")","-","f","1","2","/","a","u","g","-","c","c","-","p","v","t","z">>,  \* b-ccsd(t)-f12/aug-cc-pvtz
      <<"b","-","c","c","s","d","(","t",")","-","f","1","2","/","a","u","g","-","c","c","-","p","v","q","z">>,  \* b-ccsd(t)-f12/aug-cc-pvqz
      <<"m","p","2","_","r","m","p","2","_","p","v","d","z">>,  \* mp2_rmp2_pvdz
      <<"m","p","2","_","r","m","p","2","_","p","v","t","z">>,  \* mp2_rmp2_pvtz
      <<"m","p","2","_","r","m","p","2","_","p","v","q","z">>,  \* mp2_rmp2_pvqz
      <<"c","c","s","d","-","f","1","2","/","c","c","-","p","v","d","z","-","f","1","2">>,  \* ccsd-f12/cc-pvdz-f12
      <<"c","c","s","d","(","t",")","-","f","1","2","/","c","c","-","p","v","d","z","-","f","1","2","_","n","o","s","c","a","l","e">>,  \* ccsd(t)-f12/cc-pvdz-f12_noscale
      <<"g","0","3","_","p","b","e","p","b","e","_","6","-","3","1","1","+","+","g","_","d","_","p">>,  \* g03_pbepbe_6-311++g_d_p
      <<"f","c","i","/","c","c","-","p","v","d","z">>,  \* fci/cc-pvdz
      <<"f","c","i","/","c","c","-","p","v","t","z">>,  \* fci/cc-pvtz
      <<"f","c","i","/","c","c","-","p","v","q","z">>,  \* fci/cc-pvqz
      <<"b","m","k","/","c","b","s","b","7">>,  \* bmk/cbsb7
      <<"b","m","k","/","6","-","3","1","1","g","(","2","d",",","d",",","p",")">>,  \* bmk/6-311g(2d,d,p)
      <<"b","3","l","y","p","/","6","-","3","1","g","*","*">>,  \* b3lyp/6-31g**
      <<"b","3","l","y","p","/","6","-","3","1","1","+","g","(","3","d","f",",","2","p",")">>,  \* b3lyp/6-311+g(3df,2p)
      <<"M","R","C","I","+","D","a","v","i","d","s","o","n","/","a","u","g","-","c","c","-","p","V","(","T","+","d",")","Z">>  \* MRCI+Davidson/aug-cc-pV(T+d)Z
    }

\* ------------------------------------------------------------ the inputs
\* The characters of the generated level_of_theory strings: a letter that
\* lower() changes, and the separator character.
Alphabet == {"A", "/"}

ShortStrings == UNION {[1..n -> Alphabet] : n \in 0..MaxLen}

CBS_QB3 == <<"C","B","S","-","Q","B","3">>
G3 == <<"G","3">>
B3LYP_CBSB7 == <<"B","3","L","Y","P","/","C","B","S","B","7">>
BMK_CBSB7 == <<"B","M","K","/","C","B","S","B","7">>
HF_STO == <<"H","F","/","S","T","O">>
F12A_TZ == <<"C","C","S","D","(","T",")","-","F","1","2","a","/","c","c","-","p","V","T","Z">>
HF_B3LYP == <<"H","F","/","S","T","O","/","/","B","3","L","Y","P","/","C","B","S","B","7">>
B3LYP_HF == <<"B","3","L","Y","P","/","C","B","S","B","7","/","/","H","F","/","S","T","O">>
TWO_SEPS == <<"A","/","/","B","/","/","C">>
M06 == <<"M","0","6","-","2","X","/","c","c","-","p","V","T","Z">>

\* level_of_theory values a caller may pass.
LevelsOfTheory ==
    (ShortStrings \ {EMPTY}) \cup {CBS_QB3, B3LYP_CBSB7, HF_B3LYP, B3LYP_HF, TWO_SEPS}

\* An entry of a species or reaction list: its Python type and its label.
Entry(type, label) == [type |-> type, label |-> label]

RmgEntries == {Entry("Species", "CH4"), Entry("Species", ""), Entry("str", "")}
ArcEntries == {Entry("ARCSpecies", "OH"), Entry("str", "")}
RxnEntries == {Entry("Reaction", "CH4+OH"), Entry("str", "")}

ListsOf(S) == UNION {[1..n -> S] : n \in 1..MaxList}

\* The keyword arguments of ARC.__init__ at their default values.
DefaultArgs ==
    [ level_of_theory     |-> EMPTY,
      conformer_level     |-> EMPTY,
      composite_method    |-> EMPTY,
      opt_level           |-> EMPTY,
      freq_level          |-> EMPTY,
      sp_level            |-> EMPTY,
      scan_level          |-> EMPTY,
      generate_conformers |-> TRUE,
      scan_rotors         |-> TRUE,
      use_bac             |-> TRUE,
      model_chemistry     |-> EMPTY,
      rmg_species_list    |-> << >>,
      arc_species_list    |-> << >>,
      rxn_list            |-> << >> ]

\* What a caller may pass for one keyword argument instead of its default.
Supplied(a) ==
    {[a EXCEPT !.level_of_theory = v] : v \in LevelsOfTheory}
    \cup {[a EXCEPT !.conformer_level = v] : v \in {M06}}
    \cup {[a EXCEPT !.composite_method = v] : v \in {CBS_QB3, G3}}
    \cup {[a EXCEPT !.opt_level = v] : v \in {B3LYP_CBSB7}}
    \cup {[a EXCEPT !.freq_level = v] : v \in {BMK_CBSB7}}
    \cup {[a EXCEPT !.sp_level = v] : v \in {F12A_TZ, B3LYP_CBSB7, BMK_CBSB7, HF_STO}}
    \cup {[a EXCEPT !.scan_level = v] : v \in {HF_STO}}
    \cup {[a EXCEPT !.generate_conformers = FALSE]}
    \cup {[a EXCEPT !.scan_rotors = FALSE]}
    \cup {[a EXCEPT !.use_bac = FALSE]}
    \cup {[a EXCEPT !.model_chemistry = v] : v \in {CBS_QB3, HF_STO}}
    \cup {[a EXCEPT !.rmg_species_list = v] : v \in ListsOf(RmgEntries)}
    \cup {[a EXCEPT !.arc_species_list = v] : v \in ListsOf(ArcEntries)}
    \cup {[a EXCEPT !.rxn_list = v] : v \in ListsOf(RxnEntries)}

\* How many keyword arguments of a differ from their defaults.
NumSupplied(a) == Cardinality({f \in DOMAIN a : a[f] # DefaultArgs[f]})

\* arc.settings.default_levels_of_theory: the installation's defaults.  The
\* settings module decides them; two installations are modelled, one whose
\* default sp level has a known model chemistry and one whose has not.
DefaultLevels(sp) ==
    [ conformer          |-> <<"B","9","7","-","D","3","/","d","e","f","2","-","m","S","V","P">>,
      opt                |-> <<"w","B","9","7","x","-","D","3","/","d","e","f","2","-","T","Z","V","P","D">>,
      freq               |-> <<"w","B","9","7","x","-","D","3","/","d","e","f","2","-","T","Z","V","P">>,
      sp                 |-> sp,
      scan               |-> <<"B","3","L","Y","P","/","6","-","3","1","1","+","G","(","d",",","p",")">>,
      freq_for_composite |-> <<"B","3","L","Y","P","/","C","B","S","B","7","-","f","r","e","q">> ]

Settings ==
    { DefaultLevels(<<"C","C","S","D","(","T",")","-","F","1","2","a","/","c","c","-","p","V","T","Z","-","F","1","2">>),
      DefaultLevels(<<"M","P","2","/","c","c","-","p","V","D","Z">>) }

\* -------------------------------------------- the queue snapshot (stdout)
Digits == <<"0","1","2","3","4","5","6","7","8","9">>

\* str(n) of a non-negative integer.
RECURSIVE Str(_)
Str(n) == IF n < 10 THEN <<Digits[n + 1]>> ELSE Str(n \div 10) \o <<Digits[(n % 10) + 1]>>

SPACE == " "

\* line.split(): the whitespace-delimited fields of a line.
FieldStarts(line) ==
    {i \in 1..Len(line) : line[i] # SPACE /\ (i = 1 \/ line[i - 1] = SPACE)}

FieldEnd(line, i) ==
    CHOOSE j \in i..Len(line) :
        /\ \A k \in i..j : line[k] # SPACE
        /\ (j = Len(line) \/ line[j + 1] = SPACE)

Fields(line) ==
    LET starts == FieldStarts(line)
        nth(k) == CHOOSE i \in starts : Cardinality({j \in starts : j < i}) = k - 1
    IN  [k \in 1..Cardinality(starts) |-> SubSeq(line, nth(k), FieldEnd(line, nth(k)))]

\* The header and the separator of the scheduler's table (sshTest.py, lines 23-24).
HeaderLine == <<"j","o","b","-","I","D"," "," ","p","r","i","o","r"," "," "," ","n","a","m","e"," "," "," "," "," "," "," ","u","s","e","r"," "," "," "," "," "," "," "," "," ","s","t","a","t","e"," ","s","u","b","m","i","t","/","s","t","a","r","t"," ","a","t"," "," "," "," "," ","q","u","e","u","e">>
SeparatorLine == <<"-","-","-","-","-","-","-","-","-","-","-","-","-","-","-","-","-","-","-","-","-","-","-","-","-","-","-","-","-","-","-","-","-","-","-","-","-","-","-","-">>

\* The job names and state codes of the rows.
JobNames == {<<"a","9","6","5","4">>, <<"p","f","1","0","0","5","a">>}
StateCodes == {<<"r">>, <<"e">>, <<"q","w">>}

\* A job's row of the table (sshTest.py, lines 25-27).
Row(id, name, state) ==
    <<SPACE>> \o Str(id) \o <<" ","0",".","4","5","4","5","1"," ">> \o name \o <<" "," "," "," "," "," ","a","l","o","n","g","d"," "," "," "," "," "," "," ">> \o state
        \o <<" "," "," "," "," ","0","5","/","0","8","/","2","0","1","9"," ","0","2",":","1","1",":","4","2"," ","l","o","n","g","3","@","n","o","d","e","6","9",".","c","l","u","s","t","e","r"," "," "," "," "," "," "," "," "," "," "," "," "," "," ","4","8">>

\* The jobs in the queue, and the jobs ARC asks about.
QueuedIds == {582682, 588345}
QueriedIds == {582682, 588345, 582600, 82682, 5826820}

Rows == {Row(id, name, state) : id \in QueuedIds, name \in JobNames, state \in StateCodes}

\* The snapshots: the rows in any order, with or without the table's head.
Snapshots ==
    LET Bodies == UNION {[1..n -> Rows] : n \in 0..MaxRows}
    IN  Bodies \cup {<<HeaderLine, SeparatorLine>> \o b : b \in Bodies}

\* ------------------------------------ arc.job.ssh.check_job_status_in_stdout
LineMatches_Substring(id, line) == Contains(line, Str(id))

\* Does the line's leading field equal the string form of the job identifier?
LineMatches(id, line) ==
    LET f == Fields(line) IN Len(f) >= 1 /\ f[1] = Str(id)

FirstMatch_Last(id, out) ==
    IF \E i \in DOMAIN out : LineMatches(id, out[i])
    THEN CHOOSE i \in DOMAIN out :
             /\ LineMatches(id, out[i])
             /\ \A j \in (i + 1)..Len(out) : ~LineMatches(id, out[j])
    ELSE 0

\* The first line of the snapshot that matches, or 0.
FirstMatch(id, out) ==
    IF \E i \in DOMAIN out : LineMatches(id, out[i])
    THEN CHOOSE i \in DOMAIN out :
             /\ LineMatches(id, out[i])
             /\ \A j \in 1..(i - 1) : ~LineMatches(id, out[j])
    ELSE 0

\* The state code of a row: its fifth field.
StateCode(line) == Fields(line)[5]

\* The statuses a state code stands for.  Only r and e are settled; another
\* in-queue code is reported as running or as queued.
StatusOfCode(code) ==
    IF code = <<"r">> THEN {"running"}
    ELSE IF code = <<"e">> THEN {"errored"}
    ELSE {"running", "queued"}

\* What check_job_status_in_stdout(job_id, stdout) may return.
check_job_status_in_stdout(id, out) ==
    LET i == FirstMatch(id, out)
    IN  IF i = 0 THEN {"done"} ELSE StatusOfCode(StateCode(out[i]))

\* ------------------------------------------------------------- the state
VARIABLES
    pc,                      \* where the run of main.py stands
    args,                    \* the keyword arguments ARC(...) was called with
    default_levels_of_theory,\* arc.settings.default_levels_of_theory
    error,                   \* the exception that ended the run, or "none"
    composite_method, conformer_level, opt_level, freq_level, sp_level,
    scan_level, model_chemistry,   \* the attributes __init__ resolves
    use_bac,
    arc_species_list, rxn_list,
    idx,                     \* the position of execute()'s current loop
    scheduler,               \* self.scheduler: None, or what Scheduler(...) was given
    processor,               \* None, or what Processor(...) was given
    ssh_pc,                  \* where a status check stands
    job_id,                  \* the job the status check asks about
    stdout,                  \* the queue snapshot the server returned
    status,                  \* what the status check returned
    del_pc,                  \* where delete_all_arc_jobs stands
    del_idx,                 \* the position of its loop over stdout
    sent                     \* the commands it sent to the server, in order

vars == <<pc, args, default_levels_of_theory, error, composite_method,
          conformer_level, opt_level, freq_level, sp_level, scan_level,
          model_chemistry, use_bac, arc_species_list, rxn_list, idx,
          scheduler, processor, ssh_pc, job_id, stdout, status,
          del_pc, del_idx, sent>>

arc_vars == <<pc, args, default_levels_of_theory, error, composite_method,
              conformer_level, opt_level, freq_level, sp_level, scan_level,
              model_chemistry, use_bac, arc_species_list, rxn_list, idx,
              scheduler, processor>>

ssh_vars == <<ssh_pc, job_id, stdout, status>>

del_vars == <<del_pc, del_idx, sent>>

None == [none |-> TRUE]

\* ------------------------------------------------------- ARC.__init__
\* The object as __init__ finds it at line 87: model_chemistry and use_bac
\* are assigned, the levels are not yet.
NewObject(a) ==
    [ error            |-> "none",
      use_bac          |-> a.use_bac,
      model_chemistry  |-> a.model_chemistry,
      composite_method |-> Unset,
      conformer_level  |-> Unset,
      opt_level        |-> Unset,
      freq_level       |-> Unset,
      sp_level         |-> Unset,
      scan_level       |-> Unset,
      arc_species_list |-> << >>,
      rxn_list         |-> << >> ]

Raise(o, exc) == [o EXCEPT !.error = exc]

TooManySeparators_Two(level_of_theory) == Count(level_of_theory, SEP) > 2

\* Line 89: level_of_theory.count('//') > 1
TooManySeparators(level_of_theory) == Count(level_of_theory, SEP) > 1

\* Lines 89-92.
CheckSeparators(o, a) ==
    IF TooManySeparators(a.level_of_theory) THEN Raise(o, "InputError") ELSE o

\* Lines 94-103.
ResolveConformerLevel(o, a, d) ==
    IF o.error # "none" THEN o
    ELSE IF a.conformer_level # EMPTY
         THEN [o EXCEPT !.conformer_level = Lower(a.conformer_level)]
    ELSE IF a.generate_conformers
         THEN [o EXCEPT !.conformer_level = Lower(d.conformer)]
    ELSE [o EXCEPT !.conformer_level = EMPTY]

\* check_model_chemistry, lines 313-364: self.model_chemistry from the
\* given model chemistry or else from self.sp_level.
check_model_chemistry(o) ==
    IF o.model_chemistry # EMPTY
    THEN [o EXCEPT !.model_chemistry = Lower(o.model_chemistry)]
    ELSE LET sp == Replace(Replace(Lower(o.sp_level), <<"f","1","2","a">>, <<"f","1","2">>),
                           <<"f","1","2","b">>, <<"f","1","2">>)
         IN  IF sp \in F12SpLevels
             THEN [o EXCEPT !.model_chemistry = sp \o <<"-","f","1","2">>]
             ELSE IF sp \in BacModelChemistries
             THEN [o EXCEPT !.model_chemistry = sp]
             ELSE IF o.use_bac
             THEN Raise(o, "InputError")
             ELSE IF sp \in AecModelChemistries
             THEN [o EXCEPT !.model_chemistry = sp]
             ELSE [o EXCEPT !.model_chemistry = EMPTY]

CompositeFromLevelOfTheory_NoLower(o, a) ==
    [o EXCEPT !.composite_method = a.level_of_theory]

\* Lines 106-108: a level_of_theory without '/' names a composite method.
CompositeFromLevelOfTheory(o, a) ==
    [o EXCEPT !.composite_method = Lower(a.level_of_theory)]

SplitLevelOfTheory_Swapped(o, a) ==
    [o EXCEPT !.opt_level  = Split(Lower(a.level_of_theory), SEP)[1],
              !.freq_level = Split(Lower(a.level_of_theory), SEP)[1],
              !.sp_level   = Split(Lower(a.level_of_theory), SEP)[2]]

\* Lines 109-115: sp//geometry.
SplitLevelOfTheory(o, a) ==
    [o EXCEPT !.opt_level  = Split(Lower(a.level_of_theory), SEP)[2],
              !.freq_level = Split(Lower(a.level_of_theory), SEP)[2],
              !.sp_level   = Split(Lower(a.level_of_theory), SEP)[1]]

UniformLevelOfTheory_NoSp(o, a) ==
    [o EXCEPT !.opt_level  = Lower(a.level_of_theory),
              !.freq_level = Lower(a.level_of_theory)]

\* Lines 116-125: one method/basis level for opt, freq and sp.
UniformLevelOfTheory(o, a) ==
    [o EXCEPT !.opt_level  = Lower(a.level_of_theory),
              !.freq_level = Lower(a.level_of_theory),
              !.sp_level   = Lower(a.level_of_theory)]

\* Line 129: `level_of_theory and level_of_theory.lower != self.composite_method`.
\* The bound method level_of_theory.lower is never equal to a string, so the
\* test is the truth of level_of_theory.
ConflictingSpecification(a, composite) == a.level_of_theory # EMPTY

\* Lines 127-138.
ResolveCompositeMethod(o, a) ==
    LET composite == Lower(a.composite_method)
        o1 == [o EXCEPT !.composite_method = composite]
    IN  IF composite = EMPTY THEN o1
        ELSE IF ConflictingSpecification(a, composite) THEN Raise(o1, "InputError")
        ELSE IF composite = Lower(CBS_QB3) THEN [o1 EXCEPT !.model_chemistry = composite]
        ELSE IF o1.use_bac THEN Raise(o1, "InputError")
        ELSE o1

\* Lines 140-149.
ResolveOptLevel(o, a, d) ==
    IF o.error # "none" THEN o
    ELSE IF a.opt_level # EMPTY THEN [o EXCEPT !.opt_level = Lower(a.opt_level)]
    ELSE IF o.composite_method = EMPTY THEN [o EXCEPT !.opt_level = Lower(d.opt)]
    ELSE [o EXCEPT !.opt_level = EMPTY]

ResolveFreqLevel_OwnDefault(o, a, d) ==
    IF o.error # "none" THEN o
    ELSE IF a.freq_level # EMPTY THEN [o EXCEPT !.freq_level = Lower(a.freq_level)]
    ELSE IF o.composite_method = EMPTY THEN [o EXCEPT !.freq_level = Lower(d.opt)]
    ELSE [o EXCEPT !.freq_level = Lower(d.freq_for_composite)]

\* Lines 151-167.
ResolveFreqLevel(o, a, d) ==
    IF o.error # "none" THEN o
    ELSE IF a.freq_level # EMPTY THEN [o EXCEPT !.freq_level = Lower(a.freq_level)]
    ELSE IF o.composite_method = EMPTY
         THEN IF a.opt_level # EMPTY
              THEN [o EXCEPT !.freq_level = Lower(a.opt_level)]
              ELSE [o EXCEPT !.freq_level = Lower(d.freq)]
    ELSE [o EXCEPT !.freq_level = Lower(d.freq_for_composite)]

\* Lines 169-178.
ResolveSpLevel(o, a, d) ==
    IF o.error # "none" THEN o
    ELSE IF a.sp_level # EMPTY
         THEN check_model_chemistry([o EXCEPT !.sp_level = Lower(a.sp_level)])
    ELSE IF o.composite_method = EMPTY
         THEN check_model_chemistry([o EXCEPT !.sp_level = Lower(d.sp)])
    ELSE [o EXCEPT !.sp_level = EMPTY]

\* Lines 105-178: the levels from level_of_theory, or else one by one.
ResolveLevels(o, a, d) ==
    IF o.error # "none" THEN o
    ELSE IF a.level_of_theory # EMPTY
         THEN IF ~Contains(a.level_of_theory, SLASH)
              THEN CompositeFromLevelOfTheory(o, a)
              ELSE IF Contains(a.level_of_theory, SEP)
              THEN SplitLevelOfTheory(o, a)
              ELSE IF Contains(a.level_of_theory, SLASH) /\ ~Contains(a.level_of_theory, SEP)
              THEN UniformLevelOfTheory(o, a)
              ELSE o
    ELSE ResolveSpLevel(ResolveFreqLevel(ResolveOptLevel(
             ResolveCompositeMethod(o, a), a, d), a, d), a, d)

\* Lines 180-187.
ResolveScanLevel(o, a, d) ==
    IF o.error # "none" THEN o
    ELSE IF a.scan_level # EMPTY THEN [o EXCEPT !.scan_level = Lower(a.scan_level)]
    ELSE IF a.scan_rotors THEN [o EXCEPT !.scan_level = Lower(d.scan)]
    ELSE [o EXCEPT !.scan_level = EMPTY]

\* isinstance(x, cls)
isinstance_Always(x, cls) == TRUE

isinstance(x, cls) == x.type = cls

\* Lines 193-200: the RMG species up to the first bad one, as ARCSpecies.
RECURSIVE ConvertRmgSpecies(_, _)
ConvertRmgSpecies(o, rmg) ==
    IF rmg = << >> THEN o
    ELSE IF ~isinstance(Head(rmg), "Species") THEN Raise(o, "InputError")
    ELSE IF Head(rmg).label = "" THEN Raise(o, "InputError")
    ELSE ConvertRmgSpecies(
             [o EXCEPT !.arc_species_list = Append(@, Entry("ARCSpecies", Head(rmg).label))],
             Tail(rmg))

\* Lines 189-204.
CollectSpecies(o, a) ==
    IF o.error # "none" THEN o
    ELSE LET o1 == ConvertRmgSpecies([o EXCEPT !.arc_species_list = a.arc_species_list],
                                     a.rmg_species_list)
         IN  IF o1.error # "none" THEN o1 ELSE [o1 EXCEPT !.rxn_list = a.rxn_list]

\* ARC.__init__, lines 57-204: the object it leaves, with the exception it
\* raised if it raised one.
Construct(a, d) ==
    CollectSpecies(
        ResolveScanLevel(
            ResolveLevels(
                ResolveConformerLevel(
                    CheckSeparators(NewObject(a), a), a, d), a, d), a, d), a)

Init ==
    /\ pc = "new"
    /\ args = DefaultArgs
    /\ default_levels_of_theory \in Settings
    /\ error = "none"
    /\ composite_method = Unset
    /\ conformer_level = Unset
    /\ opt_level = Unset
    /\ freq_level = Unset
    /\ sp_level = Unset
    /\ scan_level = Unset
    /\ model_chemistry = Unset
    /\ use_bac = TRUE
    /\ arc_species_list = << >>
    /\ rxn_list = << >>
    /\ idx = 1
    /\ scheduler = None
    /\ processor = None
    /\ ssh_pc = "idle"
    /\ job_id = 0
    /\ stdout = << >>
    /\ status = "none"
    /\ del_pc = "start"
    /\ del_idx = 1
    /\ sent = << >>

\* The caller settles one more keyword argument of the call ARC(...), line 57-60.
SupplyArgument ==
    /\ pc = "new"
    /\ \E a \in Supplied(args) :
         /\ NumSupplied(a) <= MaxSupplied
         /\ args' = a
    /\ UNCHANGED <<ssh_vars, del_vars, pc, default_levels_of_theory, error, composite_method,
                   conformer_level, opt_level, freq_level, sp_level, scan_level,
                   model_chemistry, use_bac, arc_species_list, rxn_list, idx,
                   scheduler, processor>>

\* arc = ARC(**args)
ARC_init ==
    /\ pc = "new"
    /\ \E o \in {Construct(args, default_levels_of_theory)} :
         /\ args' = args
         /\ error' = o.error
         /\ pc' = IF o.error = "none" THEN "constructed" ELSE "raised"
         /\ composite_method' = o.composite_method
         /\ conformer_level' = o.conformer_level
         /\ opt_level' = o.opt_level
         /\ freq_level' = o.freq_level
         /\ sp_level' = o.sp_level
         /\ scan_level' = o.scan_level
         /\ model_chemistry' = o.model_chemistry
         /\ use_bac' = o.use_bac
         /\ arc_species_list' = o.arc_species_list
         /\ rxn_list' = o.rxn_list
    /\ UNCHANGED <<ssh_vars, del_vars, default_levels_of_theory, idx, scheduler, processor>>

\* ------------------------------------------------------- ARC.execute
\* Lines 208-213: one pass of the loop over self.arc_species_list, or its end.
ExecuteSpecies ==
    /\ pc \in {"constructed", "species"}
    /\ IF idx <= Len(arc_species_list)
       THEN IF ~isinstance(arc_species_list[idx], "ARCSpecies")
            THEN /\ pc' = "raised"
                 /\ error' = "ValueError"
                 /\ idx' = idx
            ELSE /\ pc' = "species"
                 /\ error' = error
                 /\ idx' = idx + 1
       ELSE /\ pc' = "reactions"
            /\ error' = error
            /\ idx' = 1
    /\ UNCHANGED <<ssh_vars, del_vars, args, default_levels_of_theory, composite_method, conformer_level,
                   opt_level, freq_level, sp_level, scan_level, model_chemistry,
                   use_bac, arc_species_list, rxn_list, scheduler, processor>>

\* Lines 214-219: one pass of the loop over self.rxn_list, or its end.
ExecuteReactions ==
    /\ pc = "reactions"
    /\ IF idx <= Len(rxn_list)
       THEN IF ~isinstance(rxn_list[idx], "Reaction")
            THEN /\ pc' = "raised"
                 /\ error' = "ValueError"
                 /\ idx' = idx
            ELSE /\ pc' = "reactions"
                 /\ error' = error
                 /\ idx' = idx + 1
       ELSE /\ pc' = "schedule"
            /\ error' = error
            /\ idx' = 1
    /\ UNCHANGED <<ssh_vars, del_vars, args, default_levels_of_theory, composite_method, conformer_level,
                   opt_level, freq_level, sp_level, scan_level, model_chemistry,
                   use_bac, arc_species_list, rxn_list, scheduler, processor>>

\* The attributes line 220-224 reads to call Scheduler(...).
SchedulerLevels ==
    <<composite_method, conformer_level, opt_level, freq_level, sp_level, scan_level>>

\* Reading an attribute __init__ never assigned raises AttributeError.
AttributeMissing == \E i \in DOMAIN SchedulerLevels : SchedulerLevels[i] = Unset

\* Lines 220-224: self.scheduler = Scheduler(...), which runs the jobs.
CreateScheduler ==
    /\ pc = "schedule"
    /\ IF AttributeMissing
       THEN /\ pc' = "raised"
            /\ error' = "AttributeError"
            /\ scheduler' = scheduler
       ELSE /\ pc' = "process"
            /\ error' = error
            /\ scheduler' = [ species_list     |-> arc_species_list,
                              composite_method |-> composite_method,
                              conformer_level  |-> conformer_level,
                              opt_level        |-> opt_level,
                              freq_level       |-> freq_level,
                              sp_level         |-> sp_level,
                              scan_level       |-> scan_level ]
    /\ UNCHANGED <<ssh_vars, del_vars, args, default_levels_of_theory, composite_method, conformer_level,
                   opt_level, freq_level, sp_level, scan_level, model_chemistry,
                   use_bac, arc_species_list, rxn_list, idx, processor>>

\* Lines 225-229: Processor(...).process(), the summary and the footer.
Process ==
    /\ pc = "process"
    /\ processor' = [use_bac |-> use_bac, model_chemistry |-> model_chemistry]
    /\ pc' = "done"
    /\ UNCHANGED <<ssh_vars, del_vars, args, default_levels_of_theory, error, composite_method,
                   conformer_level, opt_level, freq_level, sp_level, scan_level,
                   model_chemistry, use_bac, arc_species_list, rxn_list, idx, scheduler>>

Next ==
    \/ SupplyArgument
    \/ ARC_init
    \/ ExecuteSpecies
    \/ ExecuteReactions
    \/ CreateScheduler
    \/ Process

Spec == Init /\ [][Next]_vars

\* ------------------------------------------------------ the status check
\* The server answers the queue-status command for some job ARC tracks.
PollQueue ==
    /\ ssh_pc = "idle"
    /\ job_id' \in QueriedIds
    /\ stdout' \in Snapshots
    /\ ssh_pc' = "polled"
    /\ UNCHANGED <<arc_vars, del_vars, status>>

\* status = check_job_status_in_stdout(job_id, stdout, server)
CheckJobStatus ==
    /\ ssh_pc = "polled"
    /\ status' \in check_job_status_in_stdout(job_id, stdout)
    /\ ssh_pc' = "returned"
    /\ UNCHANGED <<arc_vars, del_vars, job_id, stdout>>

NextStatus ==
    \/ PollQueue
    \/ CheckJobStatus

SpecStatus == Init /\ [][NextStatus]_vars

\* ---------------------------------------------------- delete_all_arc_jobs
IsDigit(c) == \E i \in DOMAIN Digits : Digits[i] = c

\* re.match(' a\d', line): the pattern at the very start of the line.
re_match_arc_BySearch(line) ==
    \E i \in 1..Len(line) :
        i + 2 <= Len(line) /\ line[i] = SPACE /\ line[i + 1] = "a" /\ IsDigit(line[i + 2])

re_match_arc(line) ==
    Len(line) >= 3 /\ line[1] = SPACE /\ line[2] = "a" /\ IsDigit(line[3])

\* re.search(' a\d+', line): the match object of the leftmost occurrence,
\* its digits taken greedily; None without an occurrence.
re_search_arc(line) ==
    LET starts == {i \in 1..Len(line) :
                       i + 2 <= Len(line) /\ line[i] = SPACE /\ line[i + 1] = "a"
                           /\ IsDigit(line[i + 2])}
    IN  IF starts = {} THEN None
        ELSE LET i == CHOOSE x \in starts : \A y \in starts : x <= y
                 j == CHOOSE x \in (i + 2)..Len(line) :
                          /\ \A k \in (i + 2)..x : IsDigit(line[k])
                          /\ (x = Len(line) \/ ~IsDigit(line[x + 1]))
             IN  [type |-> "Match", group |-> SubSeq(line, i, j)]

\* A line that begins with a job's name instead of its job-ID.
NameFirstLine(name, id) == <<SPACE>> \o name \o <<SPACE>> \o Str(id) \o <<" ","a","l","o","n","g","d"," ","r">>

\* The lines the status command may answer with.
DeleteLines ==
    {HeaderLine}
        \cup {Row(id, name, <<"r">>) : id \in QueuedIds, name \in JobNames}
        \cup {NameFirstLine(name, 582682) : name \in JobNames}

DeleteSnapshots == UNION {[1..n -> DeleteLines] : n \in 0..MaxRows}

\* Lines 373-376: the status command is sent and its output read.
SendStatusCommand ==
    /\ del_pc = "start"
    /\ stdout' \in DeleteSnapshots
    /\ sent' = Append(sent, [cmd |-> "status", line |-> 0, job_id |-> None])
    /\ del_idx' = 1
    /\ del_pc' = "loop"
    /\ UNCHANGED <<arc_vars, ssh_pc, job_id, status>>

\* Lines 377-381: one pass of the loop over stdout, or its end.
DeleteMatchingJob ==
    /\ del_pc = "loop"
    /\ IF del_idx <= Len(stdout)
       THEN /\ sent' = IF re_match_arc(stdout[del_idx])
                       THEN Append(sent, [cmd |-> "delete", line |-> del_idx,
                                          job_id |-> re_search_arc(stdout[del_idx])])
                       ELSE sent
            /\ del_idx' = del_idx + 1
            /\ del_pc' = "loop"
       ELSE /\ sent' = sent
            /\ del_idx' = del_idx
            /\ del_pc' = "done"
    /\ UNCHANGED <<arc_vars, ssh_pc, job_id, stdout, status>>

NextDelete ==
    \/ SendStatusCommand
    \/ DeleteMatchingJob

SpecDelete == Init /\ [][NextDelete]_vars

\* ================================================================ claims
\* The line is the table row of job id, whatever its name and state.
IsRowOf(line, id) == \E n \in JobNames, c \in StateCodes : line = Row(id, n, c)

\* C1: when some line's leading field is the string form of job_id, the
\* status returned is decided by the state code of the first such line:
\* r gives running and e gives errored.
C1_FirstMatchingLineDecides ==
    ssh_pc = "returned" =>
        \A i \in DOMAIN stdout : \A n \in JobNames, c \in StateCodes :
            ( /\ stdout[i] = Row(job_id, n, c)
              /\ \A j \in 1..(i - 1) : ~IsRowOf(stdout[j], job_id) )
            => /\ (c = <<"r">> => status = "running")
               /\ (c = <<"e">> => status = "errored")

\* The job stands twice in the snapshot, errored first and running second.
C1_Witness ==
    /\ ssh_pc = "returned"
    /\ \E i, j \in DOMAIN stdout :
         /\ i < j
         /\ \A k \in 1..(i - 1) : ~IsRowOf(stdout[k], job_id)
         /\ \E n \in JobNames : stdout[i] = Row(job_id, n, <<"e">>)
         /\ \E n \in JobNames : stdout[j] = Row(job_id, n, <<"r">>)
    /\ status = "errored"

\* C2: when no line's leading field is exactly the string form of job_id,
\* the status returned is done; a row whose job-ID contains the queried
\* identifier, or is a proper prefix of it, is no match, nor are the header
\* and the separator.
C2_AbsentJobIsDone ==
    (ssh_pc = "returned" /\ \A i \in DOMAIN stdout : ~IsRowOf(stdout[i], job_id))
        => status = "done"

\* The snapshot, with its header, holds job 582682 only; the query is 82682.
C2_Witness ==
    /\ ssh_pc = "returned"
    /\ job_id = 82682
    /\ Len(stdout) = 3
    /\ stdout[1] = HeaderLine
    /\ stdout[2] = SeparatorLine
    /\ IsRowOf(stdout[3], 582682)
    /\ status = "done"

\* Two occurrences of '//' that do not overlap.
TwoSeparators(s) ==
    \E i, j \in 1..Len(s) :
        /\ i + 2 <= j
        /\ j + 1 <= Len(s)
        /\ SubSeq(s, i, i + 1) = SEP
        /\ SubSeq(s, j, j + 1) = SEP

OneSeparator(s) == Contains(s, SEP) /\ ~TwoSeparators(s)

\* C3: a level_of_theory with more than one '//' makes the construction
\* raise InputError; no Scheduler and no Processor is ever created.
C3_TwoSeparatorsRaise ==
    (pc # "new" /\ TwoSeparators(args.level_of_theory))
        => /\ pc = "raised"
           /\ error = "InputError"
           /\ scheduler = None
           /\ processor = None

C3_Witness ==
    /\ pc = "raised"
    /\ args.level_of_theory = TWO_SEPS
    /\ args.sp_level # EMPTY

\* C4: without a given model chemistry, whenever a single-point level is
\* resolved, model_chemistry is what the lookup tables give for it, and a
\* level outside the tables with use_bac set makes the construction raise
\* InputError.
C4_ModelChemistryInferred ==
    (pc # "new" /\ args.model_chemistry = EMPTY /\ sp_level # Unset /\ sp_level # EMPTY)
        => LET looked == check_model_chemistry(
                             [NewObject(args) EXCEPT !.sp_level = sp_level])
           IN  IF looked.error # "none"
               THEN pc = "raised" /\ error = "InputError"
               ELSE pc # "raised" => model_chemistry = looked.model_chemistry

\* C5: every object __init__ returns has all six levels assigned, so that
\* execute() reaches the Scheduler without an AttributeError.
C5_AllLevelsAssigned ==
    /\ pc \notin {"new", "raised"} => ~AttributeMissing
    /\ error # "AttributeError"

\* C6: a level_of_theory together with a different composite_method makes
\* the construction raise InputError.
C6_ConflictRaises ==
    ( /\ pc # "new"
      /\ args.level_of_theory # EMPTY
      /\ args.composite_method # EMPTY
      /\ Lower(args.level_of_theory) # Lower(args.composite_method) )
        => pc = "raised" /\ error = "InputError"

BadRmgEntry ==
    \E i \in DOMAIN args.rmg_species_list :
        args.rmg_species_list[i].type # "Species" \/ args.rmg_species_list[i].label = ""

BadArcEntry ==
    \E i \in DOMAIN args.arc_species_list : args.arc_species_list[i].type # "ARCSpecies"

BadRxnEntry ==
    \E i \in DOMAIN args.rxn_list : args.rxn_list[i].type # "Reaction"

\* C7: a bad rmg_species_list entry makes __init__ raise InputError; a bad
\* arc_species_list entry keeps execute() from leaving its species loop and
\* a bad rxn_list entry from leaving its reaction loop, other than by an
\* error; in all these runs neither the Scheduler nor the Processor is
\* created.
C7_BadEntriesRejectedFirst ==
    pc # "new" =>
        /\ BadRmgEntry => (pc = "raised" /\ error = "InputError")
        /\ BadArcEntry => pc \in {"constructed", "species", "raised"}
        /\ BadRxnEntry => pc \in {"constructed", "species", "reactions", "raised"}
        /\ (BadArcEntry \/ BadRxnEntry)
               => (pc = "raised" => error \in {"InputError", "ValueError"})
        /\ (BadRmgEntry \/ BadArcEntry \/ BadRxnEntry)
               => (scheduler = None /\ processor = None)

\* execute() went through a good species list and stopped at a bad reaction.
C7_Witness ==
    /\ pc = "raised"
    /\ error = "ValueError"
    /\ Len(arc_species_list) > 0
    /\ ~BadArcEntry
    /\ BadRxnEntry
    /\ scheduler = None

\* C8: with exactly one '//', sp_level is the lower-cased text left of it
\* and opt_level and freq_level the lower-cased text right of it, whatever
\* levels were supplied one by one.
C8_SplitAtSeparator ==
    (pc # "new" /\ OneSeparator(args.level_of_theory))
        => \E n \in 0..Len(args.level_of_theory) :
               LET left == SubSeq(args.level_of_theory, 1, n)
                   right == SubSeq(args.level_of_theory, n + 3, Len(args.level_of_theory))
               IN  /\ args.level_of_theory = left \o SEP \o right
                   /\ sp_level = Lower(left)
                   /\ opt_level = Lower(right)
                   /\ freq_level = Lower(right)

C8_Witness ==
    /\ pc = "constructed"
    /\ args.level_of_theory = HF_B3LYP
    /\ args.sp_level = BMK_CBSB7
    /\ sp_level = <<"h","f","/","s","t","o">>
    /\ opt_level = <<"b","3","l","y","p","/","c","b","s","b","7">>
    /\ freq_level = <<"b","3","l","y","p","/","c","b","s","b","7">>

\* C9: a non-empty level_of_theory without '/' is a composite method:
\* composite_method is the lower-cased level_of_theory.
C9_CompositeMethodNamed ==
    ( /\ pc # "new"
      /\ args.level_of_theory # EMPTY
      /\ \A i \in DOMAIN args.level_of_theory : args.level_of_theory[i] # "/" )
        => composite_method = Lower(args.level_of_theory)

C9_Witness ==
    /\ pc = "constructed"
    /\ args.level_of_theory = CBS_QB3
    /\ composite_method = <<"c","b","s","-","q","b","3">>

\* C10: a level_of_theory with exactly one '/' (and so no '//') is the
\* level of opt, freq and sp alike, lower-cased.
C10_UniformLevel ==
    ( /\ pc # "new"
      /\ Cardinality({i \in DOMAIN args.level_of_theory : args.level_of_theory[i] = "/"}) = 1 )
        => /\ opt_level = Lower(args.level_of_theory)
           /\ freq_level = Lower(args.level_of_theory)
           /\ sp_level = Lower(args.level_of_theory)

C10_Witness ==
    /\ pc = "constructed"
    /\ args.level_of_theory = B3LYP_CBSB7
    /\ opt_level = <<"b","3","l","y","p","/","c","b","s","b","7">>
    /\ freq_level = opt_level
    /\ sp_level = opt_level

\* The level a keyword argument resolves to by itself: the lower-cased
\* argument when supplied, or else the lower-cased default of its own key.
OwnLevel(supplied, default) == IF supplied # EMPTY THEN Lower(supplied) ELSE Lower(default)

\* The object was constructed from the individual levels alone.
ConstructedWithoutLevelOfTheory ==
    pc \notin {"new", "raised"} /\ args.level_of_theory = EMPTY

\* C11 as stated: without level_of_theory, each of opt, freq, sp, scan and
\* conformer is its own lower-cased argument, or else its own default.
C11_EachLevelOwnDefault ==
    ConstructedWithoutLevelOfTheory
        => /\ opt_level = OwnLevel(args.opt_level, default_levels_of_theory.opt)
           /\ freq_level = OwnLevel(args.freq_level, default_levels_of_theory.freq)
           /\ sp_level = OwnLevel(args.sp_level, default_levels_of_theory.sp)
           /\ scan_level = OwnLevel(args.scan_level, default_levels_of_theory.scan)
           /\ conformer_level = OwnLevel(args.conformer_level, default_levels_of_theory.conformer)

\* C11 amended: a supplied level is taken lower-cased.  One not supplied is:
\* for opt and sp the own default, or '' with a composite method; for freq
\* the lower-cased opt_level argument if that is supplied, or else the freq
\* default, and with a composite method the freq_for_composite default; for
\* scan the own default, or '' without scan_rotors; for conformer the own
\* default, or '' without generate_conformers.
C11_LevelsFallBack ==
    ConstructedWithoutLevelOfTheory
        => LET composite == args.composite_method # EMPTY
               d == default_levels_of_theory
           IN  /\ opt_level = IF args.opt_level # EMPTY THEN Lower(args.opt_level)
                              ELSE IF composite THEN EMPTY ELSE Lower(d.opt)
               /\ freq_level = IF args.freq_level # EMPTY THEN Lower(args.freq_level)
                               ELSE IF composite THEN Lower(d.freq_for_composite)
                               ELSE IF args.opt_level # EMPTY THEN Lower(args.opt_level)
                               ELSE Lower(d.freq)
               /\ sp_level = IF args.sp_level # EMPTY THEN Lower(args.sp_level)
                             ELSE IF composite THEN EMPTY ELSE Lower(d.sp)
               /\ scan_level = IF args.scan_level # EMPTY THEN Lower(args.scan_level)
                               ELSE IF args.scan_rotors THEN Lower(d.scan) ELSE EMPTY
               /\ conformer_level = IF args.conformer_level # EMPTY
                                    THEN Lower(args.conformer_level)
                                    ELSE IF args.generate_conformers
                                    THEN Lower(d.conformer) ELSE EMPTY

\* An opt_level was supplied and no freq_level: freq took the opt level.
C11_Witness ==
    /\ ConstructedWithoutLevelOfTheory
    /\ args.composite_method = EMPTY
    /\ args.opt_level = B3LYP_CBSB7
    /\ args.freq_level = EMPTY
    /\ opt_level = <<"b","3","l","y","p","/","c","b","s","b","7">>
    /\ freq_level = opt_level
    /\ freq_level # Lower(default_levels_of_theory.freq)

\* A job name ARC gives its jobs: 'a' and then a digit.
IsArcJobName(name) == Len(name) >= 2 /\ name[1] = "a" /\ IsDigit(name[2])

\* The delete commands sent for line i of the snapshot.
DeletesForLine(i) == {k \in DOMAIN sent : sent[k].cmd = "delete" /\ sent[k].line = i}

\* C12: when delete_all_arc_jobs has run, every table row whose job name is
\* an ARC job name has had delete_job issued exactly once, with the row's
\* job identifier.
C12_ArcRowsDeleted ==
    del_pc = "done" =>
        \A i \in DOMAIN stdout : \A id \in QueuedIds, n \in JobNames, c \in StateCodes :
            (stdout[i] = Row(id, n, c) /\ IsArcJobName(n))
                => /\ Cardinality(DeletesForLine(i)) = 1
                   /\ \A k \in DeletesForLine(i) :
                          sent[k].job_id = [type |-> "str", group |-> Str(id)]

\* The line begins with ' a' and a digit.
BeginsWithArcPattern(line) ==
    Len(line) >= 3 /\ SubSeq(line, 1, 2) = <<" ", "a">> /\ IsDigit(line[3])

=============================================================================
